---------------------------- MODULE Spec2Model ----------------------------
(***************************************************************************)
(* Model of the three command-line predictors of server/mlops/models/      *)
(* advanced/python: anomaly_iforest.py, demand_lightgbm.py and             *)
(* stockout_xgboost.py.  One behaviour is one process run: Init is the     *)
(* state after the module's imports (the optional library either imported  *)
(* or not), and one action is one complete run of the script's __main__    *)
(* block for one class of command line.                                    *)
(*                                                                         *)
(* Numbers.  Python floats are modelled as fixed-point integers; the name  *)
(* of a value carries its unit (avg10 = tenths, rel1000 = thousandths,     *)
(* score4 = 1e-4, p5 = 1e-5).  Divisions floor and square roots are        *)
(* integer square roots of the scaled radicand, so a value may differ from *)
(* the float by one unit in the last place.  round() is round-half-even,   *)
(* int() truncates toward zero, as in Python.                              *)
(*                                                                         *)
(* Libraries.  sklearn's IsolationForest and lightgbm's Booster are not    *)
(* code of this repository: what fit/predict/score_samples/               *)
(* feature_importance return or raise is the run's `oracle`, chosen        *)
(* nondeterministically.  datetime.now() (the report's timestamp) is left  *)
(* out of the output.                                                      *)
(***************************************************************************)
EXTENDS Integers, Sequences, FiniteSets, TLC

VARIABLES script, AVAILABLE, pc, argv, oracle, stdout, exit_status

vars == <<script, AVAILABLE, pc, argv, oracle, stdout, exit_status>>

---------------------------------------------------------------------------
(* Bounds of the model *)

\* longest metrics list of an anomaly request
MaxMetrics == 2
\* largest forecast horizon
MaxHorizon == 3

---------------------------------------------------------------------------
(* Arithmetic helpers *)

Max(a, b) == IF a >= b THEN a ELSE b
Min(a, b) == IF a <= b THEN a ELSE b
Abs(a) == IF a >= 0 THEN a ELSE -a

\* Python's round(): num/den to the nearest integer, ties to even (den > 0)
RoundHalfEven(num, den) ==
    LET q == num \div den
        r == num % den
    IN  IF 2 * r < den THEN q
        ELSE IF 2 * r > den THEN q + 1
        ELSE IF q % 2 = 0 THEN q ELSE q + 1

\* Python's int(): num/den truncated toward zero (den > 0)
Trunc(num, den) == IF num >= 0 THEN num \div den ELSE -((-num) \div den)

RECURSIVE ISqrtSearch(_, _, _)
ISqrtSearch(n, lo, hi) ==
    IF lo >= hi THEN lo
    ELSE LET mid == (lo + hi + 1) \div 2
         IN  IF mid * mid <= n THEN ISqrtSearch(n, mid, hi)
             ELSE ISqrtSearch(n, lo, mid - 1)

\* floor(sqrt(n)) for 0 <= n < 2^31
ISqrt(n) == ISqrtSearch(n, 0, 46340)

\* np.sqrt(n) in units of 1e-6, for an integer 0 <= n <= 2147: the integer
\* square root to three decimals and one Newton step
Sqrt6(n) ==
    LET s == ISqrt(n * 1000000)
    IN  IF s = 0 THEN 0
        ELSE s * 1000 + ((n * 1000000 - s * s) * 1000) \div (2 * s)

\* np.sqrt(n) in units of 1e-4, for an integer 0 <= n <= 21474836
Sqrt4(n) ==
    IF n <= 2147 THEN Sqrt6(n) \div 100
    ELSE LET s == ISqrt(n * 100)
         IN  s * 1000 + ((n * 100 - s * s) * 1000) \div (2 * s)

\* floor(a * b / c) without forming a * b (c > 0)
MulDiv(a, b, c) == (a \div c) * b + ((a % c) * b) \div c

RECURSIVE LongDiv(_, _, _)
\* floor(a * 10^digits / b) by long division (a >= 0, b > 0)
LongDiv(a, b, digits) ==
    IF digits = 0 THEN a \div b
    ELSE LongDiv(a \div b, 1, 0) * (10 ^ digits) + LongDiv((a % b) * 10, b, digits - 1)

\* a / b in units of 1e-6 (b > 0), truncated toward zero
Ratio6(a, b) == IF a >= 0 THEN LongDiv(a, b, 6) ELSE -LongDiv(-a, b, 6)

\* max(0, 1 - a / b) in units of 1e-6 (b > 0)
OneMinusRatio6(a, b) == IF a >= b THEN 0 ELSE 1000000 - Ratio6(a, b)

RECURSIVE SumSeq(_)
SumSeq(s) == IF s = <<>> THEN 0 ELSE Head(s) + SumSeq(Tail(s))

RECURSIVE SumSq(_)
SumSq(s) == IF s = <<>> THEN 0 ELSE Head(s) * Head(s) + SumSq(Tail(s))

\* len(s)^2 times the population variance of s: np.std(s) = sqrt(VarN2(s)) / len(s)
VarN2(s) == Len(s) * SumSq(s) - SumSeq(s) * SumSeq(s)

\* s[-n:]
LastN(s, n) == IF Len(s) <= n THEN s ELSE SubSeq(s, Len(s) - n + 1, Len(s))

\* [c] * n
Rep(c, n) == [i \in 1..n |-> c]

\* dict.get(key, default)
Get(d, key, default) == IF key \in DOMAIN d THEN d[key] ELSE default

\* a JSON object with no fields: {}
EmptyObject == [k \in {} |-> 0]

\* the forms of sys.argv the __main__ blocks tell apart
ArgvMissing == [kind |-> "missing"]
ArgvUnparsable == [kind |-> "unparsable"]
ArgvNotObject == [kind |-> "array"]
ArgvObject(data) == [kind |-> "object", data |-> data]

NoOracle == [lib |-> "unused"]

---------------------------------------------------------------------------
(* stockout_xgboost.py *)

\* risk level of a probability given in units of 1/n
Level(p, n) ==
    IF 10 * p >= 8 * n THEN "critical"
    ELSE IF 10 * p >= 6 * n THEN "high"
    ELSE IF 10 * p >= 3 * n THEN "medium"
    ELSE "low"

\* variant of SupplierRisk6: the reliability itself taken as the risk
SupplierRisk6_Reliability(rel1000) == 1000 * rel1000

\* supplier_risk = 1 - supplier_reliability, in units of 1e-6
SupplierRisk6(rel1000) == 1000000 - 1000 * rel1000

calculate_risk(input_data, horizon) ==
    LET current_stock == Get(input_data, "currentStock", 0)
        avg10 == Get(input_data, "avgDailySales10", 10)
        var10 == Get(input_data, "salesVariability10", 0)
        lead_time_days == Get(input_data, "leadTimeDays", 7)
        pending_orders == Get(input_data, "pendingOrders", 0)
        is_seasonal_peak == Get(input_data, "isSeasonalPeak", FALSE)
        rel1000 == Get(input_data, "supplierReliability1000", 1000)
        effective_stock == current_stock + pending_orders
        \* max(avg_daily_sales, 0.1), tenths
        denom10 == Max(avg10, 1)
        demand_multiplier10 == IF is_seasonal_peak THEN 13 ELSE 10
        \* 1e-5
        expected_demand5 == avg10 * horizon * demand_multiplier10 * 1000
        \* 1.65 * demand_std, 1e-5: sqrt6 * (165 * var10 * avg10) / 1e5
        z_demand_std5 == MulDiv(Sqrt6(horizon), 33 * var10 * avg10, 20000)
        worst_case_demand5 == expected_demand5 + z_demand_std5
        \* 1e-6
        stock_risk6 ==
            IF worst_case_demand5 > 0
            THEN OneMinusRatio6(effective_stock * 100000, worst_case_demand5)
            ELSE 0
        lead_time_risk6 ==
            IF lead_time_days > 0
            THEN OneMinusRatio6(effective_stock * 10, denom10 * lead_time_days)
            ELSE 0
        supplier_risk6 == SupplierRisk6(rel1000)
        \* 1e-7
        probability7 ==
            Min(10000000, 5 * stock_risk6 + 3 * lead_time_risk6 + 2 * supplier_risk6)
    IN  [probability |-> RoundHalfEven(probability7, 10000),
         level |-> Level(probability7, 10000000)]

\* z_score * sales_variability * avg_daily_sales * np.sqrt(lead_time_days), in
\* units of 1e-6: sqrt6 * (165 * var10 * avg10) / 1e4
SafetyStock6(var10, avg10, lead_time_days) ==
    MulDiv(Sqrt6(lead_time_days), 33 * var10 * avg10, 2000)

\* variant of ReorderInt: round() in place of int()
ReorderInt_Rounded(x6) == RoundHalfEven(x6, 1000000)

\* int(x) of lines 118 and 123, x in units of 1e-6
ReorderInt(x6) == Trunc(x6, 1000000)

\* the body of predict_stockout_risk, for lead_time_days >= 0
predict_stockout_risk(input_data) ==
    LET current_stock == Get(input_data, "currentStock", 0)
        avg10 == Get(input_data, "avgDailySales10", 10)
        lead_time_days == Get(input_data, "leadTimeDays", 7)
        var10 == Get(input_data, "salesVariability10", 0)
        risk_7 == calculate_risk(input_data, 7)
        risk_14 == calculate_risk(input_data, 14)
        risk_30 == calculate_risk(input_data, 30)
        max_prob == Max(risk_7.probability, Max(risk_14.probability, risk_30.probability))
        overall_risk == Level(max_prob, 1000)
        \* current_stock / max(avg_daily_sales, 0.1), rounded to tenths
        days_until_stockout10 == RoundHalfEven(current_stock * 100, Max(avg10, 1))
        safety_stock6 == SafetyStock6(var10, avg10, lead_time_days)
        urgent == overall_risk \in {"critical", "high"}
        recommended_action ==
            IF urgent THEN "urgent_reorder"
            ELSE IF overall_risk = "medium" THEN "plan_reorder"
            ELSE "monitor"
        reorder_quantity ==
            IF urgent
            THEN Max(0, ReorderInt(avg10 * lead_time_days * 200000 + safety_stock6
                                   - current_stock * 1000000))
            ELSE IF overall_risk = "medium"
            THEN Max(0, ReorderInt(avg10 * lead_time_days * 150000 + safety_stock6
                                   - current_stock * 1000000))
            ELSE 0
    IN  [risk_7_days |-> risk_7,
         risk_14_days |-> risk_14,
         risk_30_days |-> risk_30,
         overall_risk |-> overall_risk,
         recommended_action |-> recommended_action,
         reorder_quantity |-> reorder_quantity,
         days_until_stockout10 |-> days_until_stockout10,
         safety_stock_level |-> Trunc(safety_stock6, 1000000)]

\* np.sqrt of a negative lead time is nan, and int(nan) raises ValueError
StockoutRaises(input_data) == Get(input_data, "leadTimeDays", 7) < 0

StockLevels == {0, 5, 20, 1000}
DailySales10 == {0, 10, 25, 100}
SalesVariabilities10 == {0, 5, 10}
LeadTimes == {0, 2, 7}
SupplierReliabilities1000 == {0, 502, 900, 1000}

\* values the scripts accept although no inventory has them
StockLevelsAny == StockLevels \cup {-5}
LeadTimesAny == LeadTimes \cup {-1}

InventoryStatesOver(stock_levels, lead_times) ==
    [currentStock : stock_levels,
     avgDailySales10 : DailySales10,
     salesVariability10 : SalesVariabilities10,
     leadTimeDays : lead_times,
     pendingOrders : {0, 10},
     reorderPoint : {50},
     isSeasonalPeak : BOOLEAN,
     supplierReliability1000 : SupplierReliabilities1000]

InventoryStates == InventoryStatesOver(StockLevels, LeadTimes)

InventoryStatesAny == InventoryStatesOver(StockLevelsAny, LeadTimesAny)

StockoutInputs == InventoryStates \cup {EmptyObject}

StockoutInputsAny == InventoryStatesAny \cup {EmptyObject}

---------------------------------------------------------------------------
(* anomaly_iforest.py *)

\* len(historical_values) * (current_value - mean)
DeviationN(historical_values, current_value) ==
    Len(historical_values) * current_value - SumSeq(historical_values)

\* np.std(historical_values) > 0
StdPositive(historical_values) == VarN2(historical_values) > 0

\* (current_value - mean) / std if std > 0 else 0, in units of 1e-6
Deviation6(historical_values, current_value) ==
    IF StdPositive(historical_values)
    THEN Ratio6(DeviationN(historical_values, current_value) * 10000,
                Sqrt4(VarN2(historical_values)))
    ELSE 0

\* {'min': mean - 2 * std, 'max': mean + 2 * std}, in units of 1e-4
ExpectedRange(historical_values) ==
    LET n == Len(historical_values)
        sum4 == SumSeq(historical_values) * 10000
        root4 == Sqrt4(VarN2(historical_values))
    IN  [min |-> (sum4 - 2 * root4) \div n, max |-> (sum4 + 2 * root4) \div n]

detect_anomalies_statistical(historical_values, current_value) ==
    IF Len(historical_values) < 3
    THEN [is_anomaly |-> FALSE, score |-> 0, deviation |-> 0,
          expected_range |-> [min |-> 0, max |-> 0]]
    ELSE LET deviation6 == Deviation6(historical_values, current_value)
             z_score6 == Abs(deviation6)
         IN  [is_anomaly |-> z_score6 > 2500000,
              score |-> Min(z_score6 \div 5, 1000000),
              deviation |-> deviation6,
              expected_range |-> ExpectedRange(historical_values)]

\* the gate of line 31
UsesIsolationForest(historical_values, sklearn_available) ==
    sklearn_available /\ Len(historical_values) >= 10

\* orc is what sklearn does for this metric: fit/predict/score_samples raise, or
\* predict gives orc.prediction and -score_samples gives orc.score (1e-6)
detect_anomalies_iforest(historical_values, current_value, sklearn_available, orc) ==
    IF ~UsesIsolationForest(historical_values, sklearn_available)
    THEN detect_anomalies_statistical(historical_values, current_value)
    ELSE IF orc.fails
    THEN detect_anomalies_statistical(historical_values, current_value)
    ELSE [is_anomaly |-> orc.prediction = -1,
          score |-> orc.score,
          deviation |-> Deviation6(historical_values, current_value),
          expected_range |-> ExpectedRange(historical_values)]

\* score in units of 1e-6, deviation in units of 1e-6
get_severity(score, deviation) ==
    LET abs_deviation == Abs(deviation)
    IN  IF score >= 800000 \/ abs_deviation >= 4000000 THEN "high"
        ELSE IF score >= 500000 \/ abs_deviation >= 3000000 THEN "medium"
        ELSE IF score >= 300000 \/ abs_deviation >= 2500000 THEN "low"
        ELSE "none"

\* the result of detect_anomalies_iforest for metric i of the request
MetricResult(metrics, sklearn_available, orcs, i) ==
    detect_anomalies_iforest(metrics[i].historicalValues, metrics[i].currentValue,
                             sklearn_available, orcs[i])

\* whether the loop's body gets past line 155 for this result
Flagged(historical_values, result) == historical_values # <<>> /\ result.is_anomaly

RECURSIVE AnomaliesUpTo(_, _, _, _)
\* the anomalies list after the first k metrics (lines 144-164)
AnomaliesUpTo(metrics, sklearn_available, orcs, k) ==
    IF k = 0 THEN <<>>
    ELSE LET before == AnomaliesUpTo(metrics, sklearn_available, orcs, k - 1)
             metric == metrics[k]
             result == MetricResult(metrics, sklearn_available, orcs, k)
         IN  IF Flagged(metric.historicalValues, result)
             THEN Append(before,
                         [metricName |-> metric.name,
                          currentValue |-> metric.currentValue,
                          expectedRange |-> result.expected_range,
                          deviation |-> result.deviation,
                          severity |-> get_severity(result.score, result.deviation)])
             ELSE before

\* whether line 166 updates max_score with this metric's score
CountsForMaxScore(historical_values, result) == Flagged(historical_values, result)

RECURSIVE MaxScoreUpTo(_, _, _, _)
\* max_score after the first k metrics (lines 142, 166)
MaxScoreUpTo(metrics, sklearn_available, orcs, k) ==
    IF k = 0 THEN 0
    ELSE LET before == MaxScoreUpTo(metrics, sklearn_available, orcs, k - 1)
             result == MetricResult(metrics, sklearn_available, orcs, k)
         IN  IF CountsForMaxScore(metrics[k].historicalValues, result)
             THEN Max(before, result.score)
             ELSE before

\* lines 169-177
OverallSeverity(anomalies) ==
    IF anomalies # <<>>
    THEN IF \E i \in 1..Len(anomalies) : anomalies[i].severity = "high" THEN "high"
         ELSE IF \E i \in 1..Len(anomalies) : anomalies[i].severity = "medium" THEN "medium"
         ELSE "low"
    ELSE "none"

\* orcs[i] is what sklearn does for metric i
detect_anomalies(input_data, sklearn_available, orcs) ==
    LET metrics == Get(input_data, "metrics", <<>>)
        anomalies == AnomaliesUpTo(metrics, sklearn_available, orcs, Len(metrics))
        max_score == MaxScoreUpTo(metrics, sklearn_available, orcs, Len(metrics))
    IN  IF metrics = <<>>
        THEN [is_anomaly |-> FALSE, anomaly_score |-> 0, severity |-> "none",
              anomalies |-> <<>>]
        ELSE [is_anomaly |-> Len(anomalies) > 0,
              anomaly_score |-> RoundHalfEven(max_score, 1000),
              severity |-> OverallSeverity(anomalies),
              anomalies |-> anomalies]

Metric(historical_values, current_value) ==
    [name |-> "sales", currentValue |-> current_value,
     historicalValues |-> historical_values]

MetricPool ==
    {Metric(<<>>, 50), Metric(<<10, 12>>, 50), Metric(Rep(10, 5), 20)}
    \cup {Metric(<<10, 11, 9, 10, 12>>, c) : c \in {10, 12, 13, 50}}
    \cup {Metric(<<10, 11, 9, 10, 12, 10, 9, 11, 10, 10>>, c) : c \in {10, 12, 50}}

RECURSIVE SeqsUpTo(_, _)
\* the sequences over S of length at most n
SeqsUpTo(S, n) ==
    IF n = 0 THEN {<<>>}
    ELSE LET shorter == SeqsUpTo(S, n - 1)
         IN  shorter \cup {Append(q, x) : q \in {r \in shorter : Len(r) = n - 1}, x \in S}

AnomalyRequests ==
    {[entityId |-> "sku-1", entityType |-> "product", metrics |-> ms] :
        ms \in SeqsUpTo(MetricPool, MaxMetrics)}

AnomalyInputs == AnomalyRequests \cup {EmptyObject}

\* -model.score_samples(X_test)[0], in units of 1e-6
Scores6 == {200000, 449600, 660000, 900000}

\* what sklearn may do for one metric
SklearnOracles(historical_values, sklearn_available) ==
    IF historical_values # <<>> /\ UsesIsolationForest(historical_values, sklearn_available)
    THEN {[lib |-> "sklearn", fails |-> TRUE, prediction |-> 1, score |-> 0]}
         \cup {[lib |-> "sklearn", fails |-> FALSE, prediction |-> pr, score |-> sc] :
                  pr \in {1, -1}, sc \in Scores6}
    ELSE {NoOracle}

RECURSIVE OracleSeqs(_, _, _)
\* one oracle per metric, for the first k metrics
OracleSeqs(metrics, sklearn_available, k) ==
    IF k = 0 THEN {<<>>}
    ELSE {Append(os, o) :
            os \in OracleSeqs(metrics, sklearn_available, k - 1),
            o \in SklearnOracles(metrics[k].historicalValues, sklearn_available)}

---------------------------------------------------------------------------
(* demand_lightgbm.py *)

\* variant of InsufficientData: <= in place of <
InsufficientData_AtMost(sales_history) == Len(sales_history) <= 14

\* len(sales_history) < 14
InsufficientData(sales_history) == Len(sales_history) < 14

RECURSIVE Smooth(_, _)
\* the loop of lines 178-179 over the values left, smoothed in units of 1e-6:
\* smoothed = alpha * val + (1 - alpha) * smoothed, alpha = 0.3
Smooth(smoothed6, values) ==
    IF values = <<>> THEN smoothed6
    ELSE Smooth((3 * Head(values) * 1000000 + 7 * smoothed6) \div 10, Tail(values))

\* variant of ScaledForecast: the index added instead of multiplied
ScaledForecast_Added(smoothed6, si100) ==
    RoundHalfEven(smoothed6 + si100 * 10000, 1000000)

\* round(smoothed * seasonality_index)
ScaledForecast(smoothed6, si100) == RoundHalfEven(MulDiv(smoothed6, si100, 100), 1000000)

\* 1.96 * np.std(values), in units of 1e-4
IntervalHalfWidth4(values) == (196 * Sqrt4(VarN2(values))) \div (100 * Len(values))

\* lower and upper of lines 122-123 and 182-183
PredictionInterval(forecast, values) ==
    LET hw4 == IntervalHalfWidth4(values)
    IN  [lower |-> [i \in 1..Len(forecast) |->
                       Max(0, RoundHalfEven(forecast[i] * 10000 - hw4, 10000))],
         upper |-> [i \in 1..Len(forecast) |->
                       RoundHalfEven(forecast[i] * 10000 + hw4, 10000)],
         confidence100 |-> 95]

statistical_forecast(sales_history, horizon, si100) ==
    LET recent == LastN(sales_history, 14)
        smoothed6 == Smooth(recent[1] * 1000000, Tail(recent))
        forecast == [i \in 1..horizon |-> ScaledForecast(smoothed6, si100)]
    IN  [forecast |-> forecast,
         prediction_interval |-> PredictionInterval(forecast, recent),
         total_forecast |-> SumSeq(forecast),
         trend |-> "stable",
         feature_importance |-> "hardcoded"]

\* train_model: None when fewer than 10 training rows (indices 30..len-1) exist,
\* else what lgb.train gives: a Booster, or an exception
train_model(sales_history, orc) ==
    IF Max(0, Len(sales_history) - 30) < 10 THEN "None"
    ELSE IF orc.fails = "train" THEN "raise"
    ELSE "Booster"

\* max(0, round(pred)), pred = model.predict(...)[0] * seasonality_index
ModelForecast(pred10, si100) == Max(0, RoundHalfEven(pred10 * si100, 1000))

\* lines 140-147
Trend(forecast, horizon) ==
    LET half == horizon \div 2
        first_half == SumSeq(SubSeq(forecast, 1, half))
        second_half == SumSeq(SubSeq(forecast, half + 1, Len(forecast)))
    IN  IF 10 * second_half > 11 * first_half THEN "increasing"
        ELSE IF 10 * second_half < 9 * first_half THEN "decreasing"
        ELSE "stable"

\* what the except clause of line 161 returns
ModelPathFailure(sales_history, horizon, si100) == [error |-> "model path exception"]

\* the try block of lines 100-162; orc is what lightgbm does in this run
ModelPath(sales_history, horizon, si100, orc) ==
    LET model == train_model(sales_history, orc)
        forecast == [i \in 1..horizon |-> ModelForecast(orc.preds[i], si100)]
    IN  IF model = "raise" THEN ModelPathFailure(sales_history, horizon, si100)
        ELSE IF model = "None" THEN statistical_forecast(sales_history, horizon, si100)
        ELSE IF orc.fails = "predict" /\ horizon > 0
        THEN ModelPathFailure(sales_history, horizon, si100)
        ELSE IF orc.fails = "feature_importance"
        THEN ModelPathFailure(sales_history, horizon, si100)
        ELSE [forecast |-> forecast,
              prediction_interval |-> PredictionInterval(forecast, LastN(sales_history, 30)),
              total_forecast |-> SumSeq(forecast),
              trend |-> Trend(forecast, horizon),
              feature_importance |-> "model"]

predict_demand(input_data, lightgbm_available, orc) ==
    LET sales_history == Get(input_data, "salesHistory", <<>>)
        horizon == Get(input_data, "horizon", 14)
        si100 == Get(input_data, "seasonalityIndex100", 100)
    IN  IF InsufficientData(sales_history)
        THEN [error |-> "Insufficient data for prediction"]
        ELSE IF ~lightgbm_available
        THEN statistical_forecast(sales_history, horizon, si100)
        ELSE ModelPath(sales_history, horizon, si100, orc)

\* lightgbm is called only past both gates and with enough training rows
CallsLightgbm(input_data, lightgbm_available) ==
    LET sales_history == Get(input_data, "salesHistory", <<>>)
    IN  /\ lightgbm_available
        /\ ~InsufficientData(sales_history)
        /\ Len(sales_history) - 30 >= 10

SalesHistoriesOver(levels) ==
    {Rep(c, n) \o t : c \in levels, n \in {10, 13, 14, 36, 39, 40},
                      t \in {<<>>, <<12>>, <<7, 13, 21>>}}

Horizons == 0..MaxHorizon

SeasonalityIndexes100 == {60, 100, 130, 240}

\* values the script accepts although no sales series or season has them
SeasonalityIndexes100Any == SeasonalityIndexes100 \cup {-100}

DemandRequests ==
    [salesHistory : SalesHistoriesOver({0, 10}), horizon : Horizons,
     seasonalityIndex100 : SeasonalityIndexes100]

DemandRequestsAny ==
    [salesHistory : SalesHistoriesOver({-3, 0, 10}), horizon : Horizons,
     seasonalityIndex100 : SeasonalityIndexes100Any]

DemandInputs == DemandRequests \cup {EmptyObject}

DemandInputsAny == DemandRequestsAny \cup {EmptyObject}

\* model.predict(...)[0], in tenths
Predictions10 == {-20, 14, 105}

\* what lightgbm may do in a run that forecasts `horizon` steps
LightgbmOracles(horizon) ==
    {[lib |-> "lightgbm", fails |-> "none", preds |-> ps] :
        ps \in [1..horizon -> Predictions10]}
    \cup {[lib |-> "lightgbm", fails |-> f, preds |-> [i \in 1..horizon |-> 14]] :
            f \in {"train", "predict", "feature_importance"}}

---------------------------------------------------------------------------
(* The __main__ blocks *)

Exit(a, out, status) ==
    /\ pc = "main"
    /\ pc' = "exited"
    /\ argv' = a
    /\ stdout' = out
    /\ exit_status' = status
    /\ UNCHANGED <<script, AVAILABLE>>

\* len(sys.argv) < 2
NoInput ==
    /\ pc = "main"
    /\ oracle' = NoOracle
    /\ Exit(ArgvMissing, [error |-> "No input provided"], 1)

\* json.loads raises JSONDecodeError
InvalidJSON ==
    /\ pc = "main"
    /\ oracle' = NoOracle
    /\ Exit(ArgvUnparsable, [error |-> "Invalid JSON"], 1)

\* the payload parses but is no object: input_data.get raises AttributeError
NotAnObject ==
    /\ pc = "main"
    /\ oracle' = NoOracle
    /\ Exit(ArgvNotObject, [error |-> "AttributeError"], 1)

StockoutMain(inputs) ==
    /\ pc = "main"
    /\ script = "stockout_xgboost"
    /\ oracle' = NoOracle
    /\ \E input_data \in inputs :
          IF StockoutRaises(input_data)
          THEN Exit(ArgvObject(input_data), [error |-> "ValueError"], 1)
          ELSE Exit(ArgvObject(input_data), predict_stockout_risk(input_data), 0)

AnomalyMain ==
    /\ pc = "main"
    /\ script = "anomaly_iforest"
    /\ \E input_data \in AnomalyInputs :
          LET metrics == Get(input_data, "metrics", <<>>)
          IN  \E orcs \in OracleSeqs(metrics, AVAILABLE, Len(metrics)) :
                 /\ oracle' = orcs
                 /\ Exit(ArgvObject(input_data),
                         detect_anomalies(input_data, AVAILABLE, orcs), 0)

DemandMain(inputs) ==
    /\ pc = "main"
    /\ script = "demand_lightgbm"
    /\ \E input_data \in inputs :
          \E orc \in IF CallsLightgbm(input_data, AVAILABLE)
                      THEN LightgbmOracles(Get(input_data, "horizon", 14))
                      ELSE {NoOracle} :
             /\ oracle' = orc
             /\ Exit(ArgvObject(input_data), predict_demand(input_data, AVAILABLE, orc), 0)

Init ==
    /\ script \in {"anomaly_iforest", "demand_lightgbm", "stockout_xgboost"}
    /\ AVAILABLE \in BOOLEAN
    /\ pc = "main"
    /\ argv = ArgvMissing
    /\ oracle = NoOracle
    /\ stdout = EmptyObject
    /\ exit_status = -1

\* requests with the values an inventory system sends
Next ==
    \/ NoInput
    \/ InvalidJSON
    \/ NotAnObject
    \/ AnomalyMain
    \/ DemandMain(DemandInputs)
    \/ StockoutMain(StockoutInputs)

Spec == Init /\ [][Next]_vars

\* requests with every value the scripts accept: they validate nothing
NextAnyInput ==
    \/ NoInput
    \/ InvalidJSON
    \/ NotAnObject
    \/ AnomalyMain
    \/ DemandMain(DemandInputsAny)
    \/ StockoutMain(StockoutInputsAny)

SpecAnyInput == Init /\ [][NextAnyInput]_vars

---------------------------------------------------------------------------
(* Properties *)

\* a run of `name` that got a JSON object and has exited
Ran(name) == pc = "exited" /\ script = name /\ argv.kind = "object"

IsError(out) == "error" \in DOMAIN out

SeverityRank(sev) ==
    CASE sev = "none" -> 0 [] sev = "low" -> 1 [] sev = "medium" -> 2 [] sev = "high" -> 3

RiskRank(level) ==
    CASE level = "low" -> 0 [] level = "medium" -> 1 [] level = "high" -> 2
      [] level = "critical" -> 3

\* ---- demand_lightgbm.py ----

ReqHistory == Get(argv.data, "salesHistory", <<>>)
ReqHorizon == Get(argv.data, "horizon", 14)
ReqSeasonality100 == Get(argv.data, "seasonalityIndex100", 100)

\* a lightgbm call of this run raised
LightgbmFailed ==
    /\ oracle.lib = "lightgbm"
    /\ \/ oracle.fails \in {"train", "feature_importance"}
       \/ oracle.fails = "predict" /\ ReqHorizon > 0

\* every sklearn call of this run raised, and there was at least one
SklearnAllFailed ==
    /\ \E i \in 1..Len(oracle) : oracle[i].lib = "sklearn"
    /\ \A i \in 1..Len(oracle) : oracle[i].lib = "sklearn" => oracle[i].fails

\* C1: when the model path is entered and a step of it raises, the caller gets
\* the statistical fallback's result for the same input, never an error
\* object, in the forecaster and in the anomaly detector alike.
C1_ModelFailureFallsBack ==
    /\ (Ran("demand_lightgbm") /\ LightgbmFailed)
          => /\ ~IsError(stdout)
             /\ stdout = statistical_forecast(ReqHistory, ReqHorizon, ReqSeasonality100)
    /\ (Ran("anomaly_iforest") /\ SklearnAllFailed)
          => /\ ~IsError(stdout)
             /\ stdout = detect_anomalies(argv.data, FALSE, oracle)

\* C2: a run that prints an error object exits with a non-zero status.
C2_ErrorExitsNonZero ==
    (pc = "exited" /\ IsError(stdout)) => exit_status # 0

\* C3: predict_demand gives an error object without a forecast for every
\* history shorter than 14, whatever the horizon, the seasonality index and
\* the availability of lightgbm; with 14 or more values and no lightgbm it
\* gives a forecast and no error.
C3_InsufficientData ==
    Ran("demand_lightgbm") =>
        /\ Len(ReqHistory) < 14
              => IsError(stdout) /\ "forecast" \notin DOMAIN stdout
        /\ (Len(ReqHistory) >= 14 /\ ~AVAILABLE)
              => ~IsError(stdout) /\ "forecast" \in DOMAIN stdout

C3_Witness ==
    /\ Ran("demand_lightgbm")
    /\ AVAILABLE
    /\ Len(ReqHistory) = 13
    /\ ReqHorizon = 2
    /\ IsError(stdout)

\* C8: every successful result of predict_demand holds a forecast of exactly
\* `horizon` values, each at least 0, on the model path and on the fallback.
C8_ForecastNonNegative ==
    (Ran("demand_lightgbm") /\ ~IsError(stdout)) =>
        /\ Len(stdout.forecast) = ReqHorizon
        /\ \A i \in 1..Len(stdout.forecast) : stdout.forecast[i] >= 0

\* the run's result came from statistical_forecast
FromFallback ==
    /\ Ran("demand_lightgbm")
    /\ ~IsError(stdout)
    /\ stdout.feature_importance = "hardcoded"

Flat(forecast) ==
    \A i, j \in 1..Len(forecast) : forecast[i] = forecast[j]

ScaleFactors == 2..3

\* the fallback forecast of the run's history with the index multiplied by k
Rescaled(k) ==
    statistical_forecast(ReqHistory, ReqHorizon, k * ReqSeasonality100).forecast

\* C9 as stated: the fallback forecast is flat, and multiplying a positive
\* seasonality index by k multiplies every forecast element by k.
C9_ProportionalScaling ==
    (FromFallback /\ ReqSeasonality100 > 0) =>
        /\ Flat(stdout.forecast)
        /\ \A k \in ScaleFactors : \A i \in 1..ReqHorizon :
              Rescaled(k)[i] = k * stdout.forecast[i]

\* C9 amended: the fallback forecast is flat, and multiplying a positive
\* seasonality index by k multiplies every forecast element by k up to the
\* rounding of each element: the two differ by at most (k + 1) / 2.
C9_ScalingUpToRounding ==
    (FromFallback /\ ReqSeasonality100 > 0) =>
        /\ Flat(stdout.forecast)
        /\ \A k \in ScaleFactors : \A i \in 1..ReqHorizon :
              2 * Abs(Rescaled(k)[i] - k * stdout.forecast[i]) <= k + 1

C9_Witness ==
    /\ FromFallback
    /\ ReqSeasonality100 > 0
    /\ ReqHorizon >= 2
    /\ stdout.forecast[1] > 0
    /\ \E k \in ScaleFactors : Rescaled(k)[1] # k * stdout.forecast[1]

\* ---- anomaly_iforest.py ----

ReqMetrics == Get(argv.data, "metrics", <<>>)

\* the highest severity rank in the anomalies list, 0 when it is empty
HighestSeverityRank(anomalies) ==
    IF anomalies = <<>> THEN 0
    ELSE CHOOSE r \in 0..3 :
            /\ \E i \in 1..Len(anomalies) : SeverityRank(anomalies[i].severity) = r
            /\ \A i \in 1..Len(anomalies) : SeverityRank(anomalies[i].severity) <= r

\* C4: the report's severity is the highest severity in its anomalies list
\* (none < low < medium < high), and none when no metric is flagged.
C4_OverallSeverityIsHighest ==
    Ran("anomaly_iforest") =>
        SeverityRank(stdout.severity) = HighestSeverityRank(stdout.anomalies)

\* the metrics that were scored: those with a non-empty history
Scored == {i \in 1..Len(ReqMetrics) : ReqMetrics[i].historicalValues # <<>>}

ScoreOf(i) == MetricResult(ReqMetrics, AVAILABLE, oracle, i).score

\* C5: anomaly_score is the largest score among all scored metrics, flagged
\* or not, rounded to 3 decimals, and 0 when no metric was scored.
C5_ScoreIsMaxOverScored ==
    Ran("anomaly_iforest") =>
        IF Scored = {} THEN stdout.anomaly_score = 0
        ELSE \E i \in Scored :
                /\ \A j \in Scored : ScoreOf(j) <= ScoreOf(i)
                /\ stdout.anomaly_score = RoundHalfEven(ScoreOf(i), 1000)

\* ---- stockout_xgboost.py ----

\* a run of predict_stockout_risk on a full InventoryState that returned
Assessed ==
    /\ Ran("stockout_xgboost")
    /\ exit_status = 0
    /\ argv.data \in InventoryStatesAny

RiskHorizons == {7, 14, 30}

\* the report's entry for a horizon
Reported(h) ==
    IF h = 7 THEN stdout.risk_7_days
    ELSE IF h = 14 THEN stdout.risk_14_days
    ELSE stdout.risk_30_days

ProbabilityWith(field, value, h) ==
    calculate_risk([argv.data EXCEPT ![field] = value], h).probability

EffectiveStockNonNegative ==
    argv.data.currentStock + argv.data.pendingOrders >= 0

\* C6 as stated: at each horizon the probability does not fall when only
\* salesVariability grows or only leadTimeDays grows, and does not rise when
\* only supplierReliability grows.
C6_Monotone ==
    Assessed => \A h \in RiskHorizons :
        /\ \A v \in SalesVariabilities10 :
              v >= argv.data.salesVariability10
                 => ProbabilityWith("salesVariability10", v, h) >= Reported(h).probability
        /\ \A l \in LeadTimesAny :
              l >= argv.data.leadTimeDays
                 => ProbabilityWith("leadTimeDays", l, h) >= Reported(h).probability
        /\ \A r \in SupplierReliabilities1000 :
              r >= argv.data.supplierReliability1000
                 => ProbabilityWith("supplierReliability1000", r, h) <= Reported(h).probability

\* C6 amended: the same, with the two non-decreasing parts limited to states
\* whose currentStock + pendingOrders is not negative (avgDailySales and
\* salesVariability being non-negative).
C6_MonotoneNonNegativeStock ==
    Assessed => \A h \in RiskHorizons :
        /\ EffectiveStockNonNegative
              => \A v \in SalesVariabilities10 :
                    v >= argv.data.salesVariability10
                       => ProbabilityWith("salesVariability10", v, h)
                             >= Reported(h).probability
        /\ EffectiveStockNonNegative
              => \A l \in LeadTimesAny :
                    l >= argv.data.leadTimeDays
                       => ProbabilityWith("leadTimeDays", l, h) >= Reported(h).probability
        /\ \A r \in SupplierReliabilities1000 :
              r >= argv.data.supplierReliability1000
                 => ProbabilityWith("supplierReliability1000", r, h) <= Reported(h).probability

C6_Witness ==
    /\ Assessed
    /\ EffectiveStockNonNegative
    /\ argv.data.avgDailySales10 > 0
    /\ \E v \in SalesVariabilities10 :
          ProbabilityWith("salesVariability10", v, 7) > Reported(7).probability
    /\ \E l \in LeadTimes :
          ProbabilityWith("leadTimeDays", l, 7) > Reported(7).probability
    /\ \E r \in SupplierReliabilities1000 :
          ProbabilityWith("supplierReliability1000", r, 7) < Reported(7).probability

\* avgDailySales * leadTimeDays * factor + safetyStock - currentStock, in units
\* of 1e-6, the factor given in tenths
ReorderNeed6(factor10) ==
    argv.data.avgDailySales10 * argv.data.leadTimeDays * factor10 * 10000
    + SafetyStock6(argv.data.salesVariability10, argv.data.avgDailySales10,
                   argv.data.leadTimeDays)
    - argv.data.currentStock * 1000000

ActionFor(level) ==
    IF level \in {"critical", "high"} THEN "urgent_reorder"
    ELSE IF level = "medium" THEN "plan_reorder"
    ELSE "monitor"

FactorFor10(level) == IF level = "medium" THEN 15 ELSE 20

\* C7 as stated: the recommendation follows overall_risk, and the reorder
\* quantity is max(0, round(need)) with the factor 2 for critical or high and
\* 1.5 for medium, and 0 for low.
C7_ReorderRounded ==
    Assessed =>
        /\ stdout.recommended_action = ActionFor(stdout.overall_risk)
        /\ stdout.reorder_quantity >= 0
        /\ stdout.reorder_quantity =
              IF stdout.overall_risk = "low" THEN 0
              ELSE Max(0, RoundHalfEven(ReorderNeed6(FactorFor10(stdout.overall_risk)),
                                        1000000))

\* C7 amended: the same with the need truncated toward zero instead of
\* rounded: the quantity q is 0 when the need is below 1, and otherwise the
\* integer with q <= need < q + 1.
C7_ReorderTruncated ==
    Assessed =>
        /\ stdout.recommended_action = ActionFor(stdout.overall_risk)
        /\ stdout.reorder_quantity >= 0
        /\ IF stdout.overall_risk = "low" THEN stdout.reorder_quantity = 0
           ELSE LET need6 == ReorderNeed6(FactorFor10(stdout.overall_risk))
                    q == stdout.reorder_quantity
                IN  IF need6 < 1000000 THEN q = 0
                    ELSE q * 1000000 <= need6 /\ need6 < (q + 1) * 1000000

C7_Witness ==
    /\ Assessed
    /\ stdout.overall_risk = "medium"
    /\ stdout.recommended_action = "plan_reorder"
    /\ stdout.reorder_quantity > 0
    /\ ReorderNeed6(15) % 1000000 > 500000

\* C10: overall_risk is the highest of the three reported levels
\* (low < medium < high < critical), and each reported level is the one the
\* thresholds give for that horizon's reported, rounded probability.
C10_OverallIsHighestLevel ==
    Assessed =>
        /\ \E h \in RiskHorizons : RiskRank(stdout.overall_risk) = RiskRank(Reported(h).level)
        /\ \A h \in RiskHorizons :
              /\ RiskRank(Reported(h).level) <= RiskRank(stdout.overall_risk)
              /\ Reported(h).level = Level(Reported(h).probability, 1000)

===========================================================================
